---- MODULE Spec2Model ----
(***************************************************************************)
(* A model of src/deploy/functions/cel.ts: the resolver of the restricted  *)
(* CEL expressions of a functions deployment.                              *)
(*                                                                         *)
(* A string is a sequence of one-character strings, so that the regular    *)
(* expressions of the source are matched character by character.  The      *)
(* only whitespace character of the alphabet is the space, and there is no *)
(* line terminator, so \S is "not a space" and . is any character.         *)
(***************************************************************************)
EXTENDS Integers, Sequences, FiniteSets

VARIABLES wantType, expr, params, form, pc, shape, field, result

vars == <<wantType, expr, params, form, pc, shape, field, result>>

----------------------------------------------------------------------------
(* Bounds of the checked inputs.                                           *)

\* Parameter values carry a raw value 1..MaxVal.
MaxVal == 2
\* Extra characters put before or after an expression: 0..MaxJunk of them.
MaxJunk == 1

----------------------------------------------------------------------------
(* Strings.                                                                *)

Space == " "
Quote == "\""

\* The literal pieces of the regular expressions.
OpenMarker == <<"{", "{", " ">>
OpenParams == <<"{", "{", " ", "p", "a", "r", "a", "m", "s", ".">>
ParamsDot == <<"p", "a", "r", "a", "m", "s", ".">>
EqEq == <<" ", "=", "=", " ">>
EqEqParams == <<" ", "=", "=", " ", "p", "a", "r", "a", "m", "s", ".">>
Question == <<" ", "?", " ">>
Colon == <<" ", ":", " ">>
Close2 == <<" ", "}", "}">>
Close1 == <<" ", "}">>
TrueText == <<"t", "r", "u", "e">>
FalseText == <<"f", "a", "l", "s", "e">>

\* lit occurs in s at index i.
IsAt(s, i, lit) ==
  /\ i >= 1
  /\ i + Len(lit) - 1 <= Len(s)
  /\ \A k \in 1..Len(lit) : s[i + k - 1] = lit[k]

\* The indices of s at which lit occurs.
Occ(s, lit) == {i \in 1..Len(s) : IsAt(s, i, lit)}

\* (\S+) over s[i..j]: one or more characters, none a space.
NonSpaces(s, i, j) == i <= j /\ \A k \in i..j : s[k] # Space

\* (.+) over s[i..j]: one or more characters.
AnyChars(s, i, j) == i <= j

\* s.startsWith(lit), s.endsWith(lit)
startsWith(s, lit) == IsAt(s, 1, lit)
endsWith(s, lit) == IsAt(s, Len(s) - Len(lit) + 1, lit)

\* s.slice(1, -1): from index 1 (the second character) to the last but one.
slice1(s) == SubSeq(s, 2, Len(s) - 1)

\* A backtracking match of a pattern "literal group literal group ...":
\* the match starts as far left as it can, and then each greedy group, in
\* order, is as long as it can be.  A candidate is the tuple of the indices
\* at which the pattern's literals start; Better orders two candidates.
RECURSIVE BetterFrom(_, _, _)
BetterFrom(m, n, k) ==
  IF k > Len(m) THEN TRUE
  ELSE IF m[k] # n[k] THEN (IF k = 1 THEN m[k] < n[k] ELSE m[k] > n[k])
  ELSE BetterFrom(m, n, k + 1)

Best(M) == CHOOSE m \in M : \A n \in M : BetterFrom(m, n, 1)

NoMatch == [matched |-> FALSE, groups |-> <<>>]
Match(gs) == [matched |-> TRUE, groups |-> gs]

----------------------------------------------------------------------------
(* The regular expressions.  Each gives the captured groups of the match   *)
(* that exec() returns, or NoMatch; test() is the matched flag.            *)

\* /{{ params\.(\S+) }}/
identityRegexp(s) ==
  LET M == {m \in Occ(s, OpenParams) \X Occ(s, Close2) :
              NonSpaces(s, m[1] + Len(OpenParams), m[2] - 1)}
  IN IF M = {} THEN NoMatch
     ELSE LET m == Best(M)
          IN Match(<<SubSeq(s, m[1] + Len(OpenParams), m[2] - 1)>>)

\* /{{ params\.(\S+) == (.+) }}/
equalityRegexp(s) ==
  LET M == {m \in Occ(s, OpenParams) \X Occ(s, EqEq) \X Occ(s, Close2) :
              /\ NonSpaces(s, m[1] + Len(OpenParams), m[2] - 1)
              /\ AnyChars(s, m[2] + Len(EqEq), m[3] - 1)}
  IN IF M = {} THEN NoMatch
     ELSE LET m == Best(M)
          IN Match(<<SubSeq(s, m[1] + Len(OpenParams), m[2] - 1),
                     SubSeq(s, m[2] + Len(EqEq), m[3] - 1)>>)

\* /{{ params\.(\S+) == params\.(\S+) }}/
dualEqualityRegexp(s) ==
  LET M == {m \in Occ(s, OpenParams) \X Occ(s, EqEqParams) \X Occ(s, Close2) :
              /\ NonSpaces(s, m[1] + Len(OpenParams), m[2] - 1)
              /\ NonSpaces(s, m[2] + Len(EqEqParams), m[3] - 1)}
  IN IF M = {} THEN NoMatch
     ELSE LET m == Best(M)
          IN Match(<<SubSeq(s, m[1] + Len(OpenParams), m[2] - 1),
                     SubSeq(s, m[2] + Len(EqEqParams), m[3] - 1)>>)

\* /{{ params\.(\S+) == (.+) \? (.+) : (.+) }/
ternaryRegexp(s) ==
  LET M == {m \in Occ(s, OpenParams) \X Occ(s, EqEq) \X Occ(s, Question)
                    \X Occ(s, Colon) \X Occ(s, Close1) :
              /\ NonSpaces(s, m[1] + Len(OpenParams), m[2] - 1)
              /\ AnyChars(s, m[2] + Len(EqEq), m[3] - 1)
              /\ AnyChars(s, m[3] + Len(Question), m[4] - 1)
              /\ AnyChars(s, m[4] + Len(Colon), m[5] - 1)}
  IN IF M = {} THEN NoMatch
     ELSE LET m == Best(M)
          IN Match(<<SubSeq(s, m[1] + Len(OpenParams), m[2] - 1),
                     SubSeq(s, m[2] + Len(EqEq), m[3] - 1),
                     SubSeq(s, m[3] + Len(Question), m[4] - 1),
                     SubSeq(s, m[4] + Len(Colon), m[5] - 1)>>)

\* /{{ params\.(\S+) \? (.+) : (.+) }/
literalTernaryRegexp(s) ==
  LET M == {m \in Occ(s, OpenParams) \X Occ(s, Question) \X Occ(s, Colon)
                    \X Occ(s, Close1) :
              /\ NonSpaces(s, m[1] + Len(OpenParams), m[2] - 1)
              /\ AnyChars(s, m[2] + Len(Question), m[3] - 1)
              /\ AnyChars(s, m[3] + Len(Colon), m[4] - 1)}
  IN IF M = {} THEN NoMatch
     ELSE LET m == Best(M)
          IN Match(<<SubSeq(s, m[1] + Len(OpenParams), m[2] - 1),
                     SubSeq(s, m[2] + Len(Question), m[3] - 1),
                     SubSeq(s, m[3] + Len(Colon), m[4] - 1)>>)

\* /params\.(\S+)/ : a candidate is <<start, last index of the group>>.
paramRegexp(s) ==
  LET M == {m \in Occ(s, ParamsDot) \X (1..Len(s)) :
              NonSpaces(s, m[1] + Len(ParamsDot), m[2])}
  IN IF M = {} THEN NoMatch
     ELSE LET m == Best(M)
          IN Match(<<SubSeq(s, m[1] + Len(ParamsDot), m[2])>>)

isIdentityExpression(value) == identityRegexp(value).matched
isEqualityExpression(value) == equalityRegexp(value).matched
isDualEqualityExpression(value) == dualEqualityRegexp(value).matched
isTernaryExpression(value) == ternaryRegexp(value).matched
isLiteralTernaryExpression(value) == literalTernaryRegexp(value).matched

----------------------------------------------------------------------------
(* Literals, outcomes and parameter values.                                *)

\* type L
L == {"string", "number", "boolean"}

\* type Literal = string | number | boolean: the kind is the runtime type,
\* and only the field of that kind carries the value.
StringLit(s) == [kind |-> "string", str |-> s, num |-> 0, bool |-> FALSE]
NumberLit(n) == [kind |-> "number", str |-> <<>>, num |-> n, bool |-> FALSE]
BooleanLit(b) == [kind |-> "boolean", str |-> <<>>, num |-> 0, bool |-> b]
NoLit == [kind |-> "none", str |-> <<>>, num |-> 0, bool |-> FALSE]

\* A call returns a Literal, throws a FirebaseError (err names which of the
\* source's throw statements), or dies of the runtime's TypeError on reading
\* a property of undefined.
Return(lit) == [status |-> "ok", err |-> "", lit |-> lit]
Throw(e) == [status |-> "error", err |-> e, lit |-> NoLit]
TypeErrorThrown == [status |-> "crash", err |-> "TypeError", lit |-> NoLit]
Pending == [status |-> "pending", err |-> "", lit |-> NoLit]

\* params[name] of a table that lacks name.
Undefined ==
  [defined |-> FALSE, legalString |-> FALSE, legalNumber |-> FALSE,
   legalBoolean |-> FALSE, str |-> <<>>, num |-> 0, bool |-> FALSE]

\* params[name]
Lookup(table, name) ==
  IF name \in DOMAIN table THEN table[name] ELSE Undefined

\* paramValue.asString(), .asNumber(), .asBoolean()
asString(paramValue) == paramValue.str
asNumber(paramValue) == paramValue.num
asBoolean(paramValue) == paramValue.bool

----------------------------------------------------------------------------
(* +value, over the texts made of the model's characters: surrounding      *)
(* spaces are dropped, the empty text is 0, a text of decimal digits is    *)
(* its value, and any other text is NaN.  (The model's texts hold no sign, *)
(* fraction, exponent or radix prefix that would make a longer numeral.)   *)

Digits == <<"0", "1", "2", "3", "4", "5", "6", "7", "8", "9">>
IsDigit(c) == \E d \in 1..Len(Digits) : Digits[d] = c
DigitValue(c) == (CHOOSE d \in 1..Len(Digits) : Digits[d] = c) - 1

RECURSIVE Trim(_)
Trim(s) ==
  IF s = <<>> THEN s
  ELSE IF Head(s) = Space THEN Trim(Tail(s))
  ELSE IF s[Len(s)] = Space THEN Trim(SubSeq(s, 1, Len(s) - 1))
  ELSE s

RECURSIVE DecimalValue(_)
DecimalValue(s) ==
  IF s = <<>> THEN 0
  ELSE 10 * DecimalValue(SubSeq(s, 1, Len(s) - 1)) + DigitValue(s[Len(s)])

\* isNaN(+value)
IsNaNText(value) == \E k \in 1..Len(Trim(value)) : ~IsDigit(Trim(value)[k])

\* +value, when it is not NaN
ToNumber(value) == DecimalValue(Trim(value))

----------------------------------------------------------------------------
(* The resolvers, as the functions of the source.                          *)

resolveLiteral(want, value) ==
  IF paramRegexp(value).matched THEN Throw("literal_is_param")
  ELSE IF want = "number" THEN
    IF IsNaNText(value) THEN Throw("literal_not_number")
    ELSE Return(NumberLit(ToNumber(value)))
  ELSE IF want = "string" THEN
    IF ~startsWith(value, <<Quote>>) \/ ~endsWith(value, <<Quote>>)
    THEN Throw("literal_not_string")
    ELSE Return(StringLit(slice1(value)))
  ELSE IF want = "boolean" THEN
    IF value = TrueText THEN Return(BooleanLit(TRUE))
    ELSE IF value = FalseText THEN Return(BooleanLit(FALSE))
    ELSE Throw("literal_not_boolean")
  ELSE Throw("literal_bad_type")

\* The condition under which assertType throws its FirebaseError.
IllegalCoercion(want, paramValue) ==
  \/ want = "string" /\ ~paramValue.legalString
  \/ want = "number" /\ ~paramValue.legalNumber
  \/ want = "boolean" /\ ~paramValue.legalBoolean

\* readParamValue taking the string accessor for a wanted number.
readParamValue_StringForNumber(want, paramValue) ==
  IF ~paramValue.defined THEN TypeErrorThrown
  ELSE IF IllegalCoercion(want, paramValue) THEN Throw("illegal_coercion")
  ELSE IF want = "string" THEN Return(StringLit(asString(paramValue)))
  ELSE IF want = "number" THEN Return(StringLit(asString(paramValue)))
  ELSE Return(BooleanLit(asBoolean(paramValue)))

\* assertType reads paramValue.legalString (or its like) with no check that
\* paramValue is defined; readParamValue then calls the accessor.
readParamValue(want, paramValue) ==
  IF ~paramValue.defined THEN TypeErrorThrown
  ELSE IF IllegalCoercion(want, paramValue) THEN Throw("illegal_coercion")
  ELSE IF want = "string" THEN Return(StringLit(asString(paramValue)))
  ELSE IF want = "number" THEN Return(NumberLit(asNumber(paramValue)))
  ELSE Return(BooleanLit(asBoolean(paramValue)))

\* resolveIdentity without its check that the table holds the name.
resolveIdentity_NoPresenceCheck(want, e, table) ==
  LET match == identityRegexp(e)
  IN IF ~match.matched THEN Throw("malformed")
     ELSE readParamValue(want, Lookup(table, match.groups[1]))

resolveIdentity(want, e, table) ==
  LET match == identityRegexp(e)
  IN IF ~match.matched THEN Throw("malformed")
     ELSE LET name == match.groups[1]
              value == Lookup(table, name)
          IN IF ~value.defined THEN Throw("unresolved")
             ELSE readParamValue(want, value)

\* lhsVal.asT() === rhs, for the outcome rhs of resolveLiteral(T, ...)
CompareWith(lit, rhs) ==
  IF rhs.status = "ok" THEN Return(BooleanLit(lit = rhs.lit)) ELSE rhs

\* resolveEquality trying the number flag before the string flag.
resolveEquality_NumberFirst(e, table) ==
  LET match == equalityRegexp(e)
  IN IF ~match.matched THEN Throw("malformed")
     ELSE LET lhsName == match.groups[1]
              lhsVal == Lookup(table, lhsName)
          IN IF ~lhsVal.defined THEN Throw("unresolved")
             ELSE IF lhsVal.legalNumber THEN
               CompareWith(NumberLit(asNumber(lhsVal)),
                           resolveLiteral("number", match.groups[2]))
             ELSE IF lhsVal.legalString THEN
               CompareWith(StringLit(asString(lhsVal)),
                           resolveLiteral("string", match.groups[2]))
             ELSE IF lhsVal.legalBoolean THEN
               CompareWith(BooleanLit(asBoolean(lhsVal)),
                           resolveLiteral("boolean", match.groups[2]))
             ELSE Throw("no_type")

resolveEquality(e, table) ==
  LET match == equalityRegexp(e)
  IN IF ~match.matched THEN Throw("malformed")
     ELSE LET lhsName == match.groups[1]
              lhsVal == Lookup(table, lhsName)
          IN IF ~lhsVal.defined THEN Throw("unresolved")
             ELSE IF lhsVal.legalString THEN
               CompareWith(StringLit(asString(lhsVal)),
                           resolveLiteral("string", match.groups[2]))
             ELSE IF lhsVal.legalNumber THEN
               CompareWith(NumberLit(asNumber(lhsVal)),
                           resolveLiteral("number", match.groups[2]))
             ELSE IF lhsVal.legalBoolean THEN
               CompareWith(BooleanLit(asBoolean(lhsVal)),
                           resolveLiteral("boolean", match.groups[2]))
             ELSE Throw("no_type")

\* resolveDualEquality answering false, not throwing, when rhsVal lacks
\* the flag of lhsVal's type.
resolveDualEquality_FalseOnMismatch(e, table) ==
  LET match == dualEqualityRegexp(e)
  IN IF ~match.matched THEN Throw("malformed")
     ELSE LET lhsVal == Lookup(table, match.groups[1])
              rhsVal == Lookup(table, match.groups[2])
          IN IF ~lhsVal.defined THEN Throw("unresolved")
             ELSE IF ~rhsVal.defined THEN Throw("unresolved")
             ELSE IF lhsVal.legalString THEN
               IF ~rhsVal.legalString THEN Return(BooleanLit(FALSE))
               ELSE Return(BooleanLit(asString(lhsVal) = asString(rhsVal)))
             ELSE IF lhsVal.legalNumber THEN
               IF ~rhsVal.legalNumber THEN Return(BooleanLit(FALSE))
               ELSE Return(BooleanLit(asNumber(lhsVal) = asNumber(rhsVal)))
             ELSE IF lhsVal.legalBoolean THEN
               IF ~rhsVal.legalBoolean THEN Return(BooleanLit(FALSE))
               ELSE Return(BooleanLit(asBoolean(lhsVal) = asBoolean(rhsVal)))
             ELSE Throw("no_type")

resolveDualEquality(e, table) ==
  LET match == dualEqualityRegexp(e)
  IN IF ~match.matched THEN Throw("malformed")
     ELSE LET lhsVal == Lookup(table, match.groups[1])
              rhsVal == Lookup(table, match.groups[2])
          IN IF ~lhsVal.defined THEN Throw("unresolved")
             ELSE IF ~rhsVal.defined THEN Throw("unresolved")
             ELSE IF lhsVal.legalString THEN
               IF ~rhsVal.legalString THEN Throw("type_mismatch")
               ELSE Return(BooleanLit(asString(lhsVal) = asString(rhsVal)))
             ELSE IF lhsVal.legalNumber THEN
               IF ~rhsVal.legalNumber THEN Throw("type_mismatch")
               ELSE Return(BooleanLit(asNumber(lhsVal) = asNumber(rhsVal)))
             ELSE IF lhsVal.legalBoolean THEN
               IF ~rhsVal.legalBoolean THEN Throw("type_mismatch")
               ELSE Return(BooleanLit(asBoolean(lhsVal) = asBoolean(rhsVal)))
             ELSE Throw("no_type")

resolveParamOrLiteral(want, fld, table) ==
  LET match == paramRegexp(fld)
  IN IF ~match.matched THEN resolveLiteral(want, fld)
     ELSE readParamValue(want, Lookup(table, match.groups[1]))

\* `{{ params.${match[1]} == ${match[2]} }}`
EqualityExprOf(name, rhs) == OpenParams \o name \o EqEq \o rhs \o Close2

\* resolveTernary up to its choice of a branch: the outcome of the
\* condition, and the branch text handed to resolveParamOrLiteral.
TernaryCondition(e, table) ==
  LET match == ternaryRegexp(e)
  IN IF ~match.matched THEN Throw("malformed")
     ELSE resolveEquality(EqualityExprOf(match.groups[1], match.groups[2]), table)

\* The branches of resolveTernary taken the wrong way round.
TernaryBranch_Swapped(e, isTrue) ==
  LET match == ternaryRegexp(e)
  IN IF isTrue THEN match.groups[4] ELSE match.groups[3]

TernaryBranch(e, isTrue) ==
  LET match == ternaryRegexp(e)
  IN IF isTrue THEN match.groups[3] ELSE match.groups[4]

\* resolveLiteralTernary without its check of the boolean legality flag.
LiteralTernaryCondition_NoFlagCheck(e, table) ==
  LET match == literalTernaryRegexp(e)
  IN IF ~match.matched THEN Throw("malformed")
     ELSE LET paramValue == Lookup(table, match.groups[1])
          IN IF ~paramValue.defined THEN Throw("unresolved")
             ELSE Return(BooleanLit(asBoolean(paramValue)))

\* resolveLiteralTernary up to its choice of a branch.
LiteralTernaryCondition(e, table) ==
  LET match == literalTernaryRegexp(e)
  IN IF ~match.matched THEN Throw("malformed")
     ELSE LET paramValue == Lookup(table, match.groups[1])
          IN IF ~paramValue.defined THEN Throw("unresolved")
             ELSE IF ~paramValue.legalBoolean THEN Throw("non_boolean_condition")
             ELSE Return(BooleanLit(asBoolean(paramValue)))

LiteralTernaryBranch(e, isTrue) ==
  LET match == literalTernaryRegexp(e)
  IN IF isTrue THEN match.groups[2] ELSE match.groups[3]

\* The branch of resolveExpression's if-chain that expr takes.
ShapeOf(e) ==
  IF isIdentityExpression(e) THEN "identity"
  ELSE IF isTernaryExpression(e) THEN "ternary"
  ELSE IF isLiteralTernaryExpression(e) THEN "literalTernary"
  ELSE IF isDualEqualityExpression(e) THEN "dualEquality"
  ELSE IF isEqualityExpression(e) THEN "equality"
  ELSE "unsupported"

----------------------------------------------------------------------------
(* The inputs of a call: a wanted type, a parameter table and an           *)
(* expression.  An expression is written from a form: the shape it is      *)
(* written in, its operand texts, the junk around it and its closing       *)
(* marker.  The resolvers see the expression's characters only.            *)

NameA == <<"a">>
NameB == <<"b">>
Names == {NameA, NameB}

\* A parameter's raw value v is "x...x" (v characters) as a string, v as a
\* number, and true as a boolean when v is odd.
StrOf(v) == [i \in 1..v |-> "x"]

ParamValue(ls, ln, lb, v) ==
  [defined |-> TRUE, legalString |-> ls, legalNumber |-> ln,
   legalBoolean |-> lb, str |-> StrOf(v), num |-> v, bool |-> (v % 2 = 1)]

\* Parameter a takes every raw value and b the raw value 1, so that a
\* equals b in some tables and differs from it in others; each takes every
\* combination of the three legality flags.
RawValues(n) == IF n = NameA THEN 1..MaxVal ELSE {1}

ParamValues(n) ==
  {ParamValue(ls, ln, lb, v) :
     ls \in BOOLEAN, ln \in BOOLEAN, lb \in BOOLEAN, v \in RawValues(n)}

Tables ==
  UNION {{t \in [D -> UNION {ParamValues(n) : n \in D}] :
            \A n \in D : t[n] \in ParamValues(n)} : D \in SUBSET Names}

QuotedX == <<Quote, "x", Quote>>
OneText == <<"1">>
ParamBText == ParamsDot \o NameB
LoneQuote == <<Quote>>
NestedIdentity == OpenParams \o NameB \o Close2

RhsTexts == {QuotedX, OneText, TrueText}
BranchTexts == {QuotedX, OneText, TrueText, ParamBText}
TernaryBranchTexts == {QuotedX, OneText, ParamBText}
OddBranchTexts == {LoneQuote, NestedIdentity}

Junk(n) == [i \in 1..n |-> "x"]
Junks == {Junk(n) : n \in 0..MaxJunk}

Form(sh, n, r, t, e, pre, post, cl) ==
  [shape |-> sh, name |-> n, rhs |-> r, then |-> t, else |-> e,
   pre |-> pre, post |-> post, close |-> cl]

\* Each shape as its comment in the source writes it.
CanonicalForms ==
  {Form("identity", n, <<>>, <<>>, <<>>, <<>>, <<>>, Close2) : n \in Names}
  \cup {Form("equality", n, r, <<>>, <<>>, <<>>, <<>>, Close2) :
          n \in Names, r \in RhsTexts}
  \cup {Form("dualEquality", n, ParamBText, <<>>, <<>>, <<>>, <<>>, Close2) :
          n \in Names}
  \cup {Form("ternary", NameA, r, t, e, <<>>, <<>>, Close2) :
          r \in RhsTexts, t \in TernaryBranchTexts, e \in TernaryBranchTexts}
  \cup {Form("literalTernary", NameA, <<>>, t, e, <<>>, <<>>, Close2) :
          t \in BranchTexts, e \in BranchTexts}

\* A ternary whose condition compares with a parameter reference, and
\* ternaries with an odd branch: a lone double quote, a nested expression.
OddForms ==
  {Form("ternary", NameA, ParamBText, OneText, OneText, <<>>, <<>>, Close2)}
  \cup {Form("ternary", NameA, OneText, t, OneText, <<>>, <<>>, Close2) :
          t \in OddBranchTexts}
  \cup {Form("literalTernary", NameA, <<>>, t, OneText, <<>>, <<>>, Close2) :
          t \in OddBranchTexts}
  \cup {Form("literalTernary", NameA, <<>>, OneText, e, <<>>, <<>>, Close2) :
          e \in OddBranchTexts}

\* A shape with characters before its open marker or after its close
\* marker, and the two ternaries closed by one brace only.
JunkForms ==
  {Form("identity", NameA, <<>>, <<>>, <<>>, pre, post, Close2) :
     pre \in Junks, post \in Junks}
  \cup {Form("equality", NameA, OneText, <<>>, <<>>, pre, post, Close2) :
          pre \in Junks, post \in Junks}
  \cup {Form("dualEquality", NameA, ParamBText, <<>>, <<>>, pre, post, Close2) :
          pre \in Junks, post \in Junks}
  \cup {Form("ternary", NameA, OneText, OneText, OneText, pre, post, Close2) :
          pre \in Junks, post \in Junks}
  \cup {Form("literalTernary", NameA, <<>>, OneText, OneText, pre, post, Close2) :
          pre \in Junks, post \in Junks}
  \cup {Form("ternary", NameA, OneText, OneText, OneText, <<>>, <<>>, Close1),
        Form("literalTernary", NameA, <<>>, OneText, OneText, <<>>, <<>>, Close1)}

\* A marked expression of none of the five shapes: a literal alone.
LiteralForms ==
  {Form("literal", <<>>, r, <<>>, <<>>, <<>>, <<>>, Close2) : r \in RhsTexts}

Forms == CanonicalForms \cup OddForms \cup JunkForms \cup LiteralForms

\* The text between the markers.
Body(f) ==
  CASE f.shape = "identity" -> ParamsDot \o f.name
    [] f.shape = "equality" -> ParamsDot \o f.name \o EqEq \o f.rhs
    [] f.shape = "dualEquality" -> ParamsDot \o f.name \o EqEq \o f.rhs
    [] f.shape = "ternary" ->
         ParamsDot \o f.name \o EqEq \o f.rhs \o Question \o f.then
           \o Colon \o f.else
    [] f.shape = "literalTernary" ->
         ParamsDot \o f.name \o Question \o f.then \o Colon \o f.else
    [] f.shape = "literal" -> f.rhs

Written(f) == f.pre \o OpenMarker \o Body(f) \o f.close \o f.post

----------------------------------------------------------------------------
(* The call resolveExpression(wantType, expr, params), a step per function *)
(* entered.                                                                *)

Init ==
  /\ wantType \in L
  /\ params \in Tables
  /\ form \in Forms
  /\ expr = Written(form)
  /\ pc = "resolveExpression"
  /\ shape = "none"
  /\ field = <<>>
  /\ result = Pending

Finish(r) ==
  /\ pc' = "done"
  /\ result' = r

\* resolveExpression: the if-chain over the five tests.
ResolveExpression ==
  /\ pc = "resolveExpression"
  /\ shape' = ShapeOf(expr)
  /\ IF shape' = "unsupported"
     THEN Finish(Throw("unsupported"))
     ELSE pc' = shape' /\ result' = result
  /\ UNCHANGED <<wantType, expr, params, form, field>>

ResolveIdentity ==
  /\ pc = "identity"
  /\ Finish(resolveIdentity(wantType, expr, params))
  /\ UNCHANGED <<wantType, expr, params, form, shape, field>>

ResolveEquality ==
  /\ pc = "equality"
  /\ Finish(resolveEquality(expr, params))
  /\ UNCHANGED <<wantType, expr, params, form, shape, field>>

ResolveDualEquality ==
  /\ pc = "dualEquality"
  /\ Finish(resolveDualEquality(expr, params))
  /\ UNCHANGED <<wantType, expr, params, form, shape, field>>

\* resolveTernary up to its call of resolveParamOrLiteral.
ResolveTernary ==
  /\ pc = "ternary"
  /\ LET isTrue == TernaryCondition(expr, params)
     IN IF isTrue.status # "ok"
        THEN Finish(isTrue) /\ field' = field
        ELSE /\ pc' = "resolveParamOrLiteral"
             /\ field' = TernaryBranch(expr, isTrue.lit.bool)
             /\ result' = result
  /\ UNCHANGED <<wantType, expr, params, form, shape>>

\* resolveLiteralTernary up to its call of resolveParamOrLiteral.
ResolveLiteralTernary ==
  /\ pc = "literalTernary"
  /\ LET isTrue == LiteralTernaryCondition(expr, params)
     IN IF isTrue.status # "ok"
        THEN Finish(isTrue) /\ field' = field
        ELSE /\ pc' = "resolveParamOrLiteral"
             /\ field' = LiteralTernaryBranch(expr, isTrue.lit.bool)
             /\ result' = result
  /\ UNCHANGED <<wantType, expr, params, form, shape>>

\* resolveParamOrLiteral on the chosen branch; its outcome is the call's.
ResolveParamOrLiteral ==
  /\ pc = "resolveParamOrLiteral"
  /\ Finish(resolveParamOrLiteral(wantType, field, params))
  /\ UNCHANGED <<wantType, expr, params, form, shape, field>>

Next ==
  \/ ResolveExpression
  \/ ResolveIdentity
  \/ ResolveEquality
  \/ ResolveDualEquality
  \/ ResolveTernary
  \/ ResolveLiteralTernary
  \/ ResolveParamOrLiteral

Spec == Init /\ [][Next]_vars

----------------------------------------------------------------------------
(* Properties.  A form names the operand texts an expression was written   *)
(* from, so each property compares what the resolvers made of the          *)
(* expression's characters with what its operands call for.                *)

Done == pc = "done"

\* The expression is written as its shape's comment in the source writes
\* it: nothing around the markers, two closing braces.
Canonical == form.pre = <<>> /\ form.post = <<>> /\ form.close = Close2

\* The type the equality resolvers infer: the first true legality flag.
InferType(paramValue) ==
  IF paramValue.legalString THEN "string"
  ELSE IF paramValue.legalNumber THEN "number"
  ELSE IF paramValue.legalBoolean THEN "boolean"
  ELSE "none"

\* The Literal an accessor of paramValue returns.
ValueAs(type, paramValue) ==
  IF type = "string" THEN StringLit(paramValue.str)
  ELSE IF type = "number" THEN NumberLit(paramValue.num)
  ELSE BooleanLit(paramValue.bool)

HasFlag(type, paramValue) ==
  \/ type = "string" /\ paramValue.legalString
  \/ type = "number" /\ paramValue.legalNumber
  \/ type = "boolean" /\ paramValue.legalBoolean

\* Parameter Lookup as the specification states it.
ParameterLookup(want, name, table) ==
  IF name \notin DOMAIN table THEN Throw("unresolved")
  ELSE IF ~HasFlag(want, table[name]) THEN Throw("illegal_coercion")
  ELSE Return(ValueAs(want, table[name]))

LiteralMalformed ==
  {"literal_is_param", "literal_not_number", "literal_not_string",
   "literal_not_boolean"}

\* C1, as stated: every successful resolution returns a Literal whose kind
\* is the wanted type, whatever the shape of the expression.
C1_KindIsWantType ==
  (Done /\ Canonical /\ result.status = "ok") => result.lit.kind = wantType

\* C1, amended: a successful resolution of an identity, ternary or
\* literal-ternary expression returns a Literal of the wanted type; a
\* successful resolution of an equality or dual-equality expression returns
\* a boolean, whatever the wanted type.
C1_KindByShape ==
  (Done /\ result.status = "ok") =>
    IF shape \in {"equality", "dualEquality"}
    THEN result.lit.kind = "boolean"
    ELSE result.lit.kind = wantType

\* A ternary has returned a number read from parameter b to a caller that
\* wanted a number.
C1_Witness ==
  /\ Done
  /\ shape = "ternary"
  /\ wantType = "number"
  /\ field = ParamBText
  /\ result = Return(NumberLit(1))

\* C2: a selected branch params.NAME of a ternary or literal ternary is
\* resolved by Parameter Lookup with the wanted type: an absent NAME is the
\* unresolved-reference error, a NAME without the wanted flag is the illegal
\* type coercion, and otherwise the result is the accessor's value.
C2_BranchParameterLookup ==
  \A n \in Names :
    (/\ Done
     /\ Canonical
     /\ shape \in {"ternary", "literalTernary"}
     /\ field = ParamsDot \o n)
      => result = ParameterLookup(wantType, n, params)

\* C3, as stated: a dual equality of two present parameters, each with an
\* inferred type (its first true flag), fails with the type-mismatch error
\* when the two inferred types differ.
C3_InferredTypesDiffer ==
  (/\ Done
   /\ Canonical
   /\ shape = "dualEquality"
   /\ form.shape = "dualEquality"
   /\ form.name \in DOMAIN params
   /\ NameB \in DOMAIN params
   /\ InferType(params[form.name]) # "none"
   /\ InferType(params[NameB]) # "none"
   /\ InferType(params[form.name]) # InferType(params[NameB]))
    => result = Throw("type_mismatch")

\* C3, amended: a dual equality params.A == params.B of two present
\* parameters, A with a legality flag set, fails with the type-mismatch
\* error, and returns no boolean, when B lacks the legality flag of the type
\* inferred for A.
C3_MismatchWhenFlagMissing ==
  (/\ Done
   /\ shape = "dualEquality"
   /\ form.shape = "dualEquality"
   /\ form.name \in DOMAIN params
   /\ NameB \in DOMAIN params
   /\ InferType(params[form.name]) # "none"
   /\ ~HasFlag(InferType(params[form.name]), params[NameB]))
    => result = Throw("type_mismatch")

\* params.a == params.b with a legal as a number only and b as a string
\* only has failed with the type mismatch.
C3_Witness ==
  /\ Done
  /\ shape = "dualEquality"
  /\ form.name = NameA
  /\ NameA \in DOMAIN params
  /\ NameB \in DOMAIN params
  /\ InferType(params[NameA]) = "number"
  /\ ~params[NameB].legalNumber
  /\ params[NameB].legalString
  /\ result = Throw("type_mismatch")

\* What C4 calls for, from the operands NAME and RHS.
EqualityOf(name, rhs, table) ==
  IF name \notin DOMAIN table THEN [fails |-> TRUE, value |-> FALSE]
  ELSE LET type == InferType(table[name])
           coerced == resolveLiteral(type, rhs)
       IN IF type = "none" \/ coerced.status # "ok"
          THEN [fails |-> TRUE, value |-> FALSE]
          ELSE [fails |-> FALSE,
                value |-> (ValueAs(type, table[name]) = coerced.lit)]

\* C4: an equality params.NAME == RHS is the boolean "NAME's value of its
\* inferred type equals RHS coerced to that type", and fails when NAME is
\* absent or has no flag or RHS cannot be coerced; the wanted type plays no
\* part.
C4_EqualityByInferredType ==
  (Done /\ shape = "equality" /\ form.shape = "equality") =>
    LET want == EqualityOf(form.name, form.rhs, params)
    IN IF want.fails THEN result.status = "error"
       ELSE result = Return(BooleanLit(want.value))

\* params.NAME == "x" has resolved to true for a caller that wanted a
\* number, NAME being legal as a string and as a number.
C4_Witness ==
  /\ Done
  /\ shape = "equality"
  /\ form.shape = "equality"
  /\ form.rhs = QuotedX
  /\ wantType = "number"
  /\ form.name \in DOMAIN params
  /\ params[form.name].legalNumber
  /\ result = Return(BooleanLit(TRUE))

C6_WholeStringOnly ==
  (Done /\ (form.pre # <<>> \/ form.post # <<>> \/ form.close = Close1))
    => result = Throw("unsupported")

FirstMatch(e) ==
  LET order == <<"identity", "ternary", "literalTernary", "dualEquality",
                 "equality">>
      matches(k) ==
        CASE k = "identity" -> isIdentityExpression(e)
          [] k = "ternary" -> isTernaryExpression(e)
          [] k = "literalTernary" -> isLiteralTernaryExpression(e)
          [] k = "dualEquality" -> isDualEqualityExpression(e)
          [] k = "equality" -> isEqualityExpression(e)
      M == {i \in 1..Len(order) : matches(order[i])}
  IN IF M = {} THEN "unsupported"
     ELSE order[CHOOSE i \in M : \A j \in M : i <= j]

\* C8: an expression goes to the resolver of the first shape it matches in
\* the order identity, ternary, literal ternary, dual equality, equality,
\* and is unsupported exactly when it matches none; so an expression with
\* parameter references on both sides goes to the dual-equality resolver,
\* and one with ? THEN : ELSE branches is not handled as an equality or an
\* identity.
C8_DispatchOrder ==
  (pc # "resolveExpression" /\ Canonical) =>
    /\ shape = FirstMatch(expr)
    /\ (result = Throw("unsupported")) <=> (FirstMatch(expr) = "unsupported")
    /\ form.shape = "dualEquality" => shape = "dualEquality"
    /\ form.shape \in {"ternary", "literalTernary"} =>
         shape \notin {"identity", "equality"}

\* The text is wrapped in a pair of double quotes: two of them.
Wrapped(value) ==
  Len(value) >= 2 /\ value[1] = Quote /\ value[Len(value)] = Quote

\* C9: the literal coercer, asked for a string, succeeds only on a text
\* wrapped in a pair of double quotes (two quotes), returning the text
\* between them; every other text, a lone double quote included, is a
\* malformed literal.
C9_StringLiteralNeedsQuotePair ==
  (/\ Done
   /\ Canonical
   /\ field # <<>>
   /\ ~paramRegexp(field).matched
   /\ wantType = "string")
    => IF Wrapped(field)
       THEN result = Return(StringLit(SubSeq(field, 2, Len(field) - 1)))
       ELSE result.status = "error" /\ result.err \in LiteralMalformed

====
